---- MODULE Spec2Model ----
(***************************************************************************)
(* PSP22 token contract: the `Token` ink! contract of src/lib.rs on top of *)
(* the PSP22Data ledger (mod data, balances / allowances / total supply).  *)
(*                                                                         *)
(* The contract messages are modelled as operators from the storage before *)
(* the call to the call's outcome (result, storage after, events emitted   *)
(* to the host), one action per message.  Amounts are u128 in the source;  *)
(* the model keeps the checked arithmetic and scales the width down to     *)
(* 0..MaxAmount.                                                           *)
(***************************************************************************)
EXTENDS Integers, Sequences, FiniteSets, TLC

\* ---------------------------------------------------------------- bounds
\* largest representable amount (u128::MAX in the source, scaled down)
MaxAmount == 2
\* number of contract calls in one behaviour
MaxSteps == 2

\* ---------------------------------------------------------------- domains
Accounts == {"A", "B", "C"}
Amounts == 0 .. MaxAmount
NoAccount == "None"
\* the bond account handed to the constructor: account identifiers are
\* opaque, so one choice stands for all of them up to renaming
Bonds == {"A"}
NoValue == -1

VARIABLES token, steps
vars == <<token, steps>>

\* ---------------------------------------------------------------- errors
InsufficientBalance == "InsufficientBalance"
InsufficientAllowance == "InsufficientAllowance"
Overflow == "Overflow"
Custom(msg) == "Custom(" \o msg \o ")"
NoError == "Ok"

\* ---------------------------------------------------------------- arithmetic
\* u128::checked_add / checked_sub: NoValue stands for Option::None
checked_add(a, b) == IF a + b > MaxAmount THEN NoValue ELSE a + b
checked_sub(a, b) == IF a < b THEN NoValue ELSE a - b

\* ---------------------------------------------------------------- notifications
\* PSP22Event::Transfer / PSP22Event::Approval, as returned by the ledger
PSP22Event_Transfer(from, to, value) ==
    [kind |-> "Transfer", from |-> from, to |-> to, value |-> value]
PSP22Event_Approval(owner, spender, amount) ==
    [kind |-> "Approval", owner |-> owner, spender |-> spender, amount |-> amount]

\* ---------------------------------------------------------------- ledger
\* PSP22Data::default(): empty ledger; an absent entry reads as zero
PSP22Data_default ==
    [total_supply |-> 0,
     balances |-> [a \in Accounts |-> 0],
     allowances |-> [p \in Accounts \X Accounts |-> 0]]

PSP22Data_total_supply(d) == d.total_supply
PSP22Data_balance_of(d, owner) == d.balances[owner]
PSP22Data_allowance(d, owner, spender) == d.allowances[<<owner, spender>>]

\* outcome of a ledger operation: Result<Vec<PSP22Event>, PSP22Error> and
\* the ledger after the call
DataOk(d, events) == [ok |-> TRUE, err |-> NoError, data |-> d, events |-> events]
DataErr(d, e) == [ok |-> FALSE, err |-> e, data |-> d, events |-> <<>>]

\* mint that credits the balance and forgets the supply counter
PSP22Data_mint_NoSupply(d, to, value) ==
    LET new_balance == checked_add(PSP22Data_balance_of(d, to), value)
    IN  IF new_balance = NoValue THEN DataErr(d, Overflow)
        ELSE DataOk([d EXCEPT !.balances[to] = new_balance],
                    IF value = 0 THEN <<>>
                    ELSE <<PSP22Event_Transfer(NoAccount, to, value)>>)

\* mint whose supply addition wraps instead of being checked
PSP22Data_mint_WrappingSupply(d, to, value) ==
    LET new_balance == checked_add(PSP22Data_balance_of(d, to), value)
    IN  IF new_balance = NoValue THEN DataErr(d, Overflow)
        ELSE DataOk([d EXCEPT !.total_supply = (@ + value) % (MaxAmount + 1),
                              !.balances[to] = new_balance],
                    IF value = 0 THEN <<>>
                    ELSE <<PSP22Event_Transfer(NoAccount, to, value)>>)

PSP22Data_mint(d, to, value) ==
    LET new_supply == checked_add(d.total_supply, value)
        new_balance == checked_add(PSP22Data_balance_of(d, to), value)
    IN  IF new_supply = NoValue \/ new_balance = NoValue THEN DataErr(d, Overflow)
        ELSE DataOk([d EXCEPT !.total_supply = new_supply,
                              !.balances[to] = new_balance],
                    IF value = 0 THEN <<>>
                    ELSE <<PSP22Event_Transfer(NoAccount, to, value)>>)

PSP22Data_burn(d, from, value) ==
    LET new_balance == checked_sub(PSP22Data_balance_of(d, from), value)
        new_supply == checked_sub(d.total_supply, value)
    IN  IF new_balance = NoValue \/ new_supply = NoValue
        THEN DataErr(d, InsufficientBalance)
        ELSE DataOk([d EXCEPT !.total_supply = new_supply,
                              !.balances[from] = new_balance],
                    IF value = 0 THEN <<>>
                    ELSE <<PSP22Event_Transfer(from, NoAccount, value)>>)

\* the balance movement shared by transfer and transfer_from: all new values
\* are computed first and committed last; not ok when the credit overflows
move_balance(d, from, to, value) ==
    LET debited == [d.balances EXCEPT ![from] = @ - value]
        credited == checked_add(debited[to], value)
    IN  [ok |-> credited # NoValue,
         balances |-> IF credited = NoValue THEN d.balances
                      ELSE [debited EXCEPT ![to] = credited]]

PSP22Data_transfer(d, caller, to, value) ==
    IF PSP22Data_balance_of(d, caller) < value THEN DataErr(d, InsufficientBalance)
    ELSE LET moved == move_balance(d, caller, to, value)
         IN  IF ~moved.ok THEN DataErr(d, Overflow)
             ELSE DataOk([d EXCEPT !.balances = moved.balances],
                         IF value = 0 THEN <<>>
                         ELSE <<PSP22Event_Transfer(caller, to, value)>>)

PSP22Data_transfer_from(d, caller, from, to, value) ==
    IF PSP22Data_allowance(d, from, caller) < value
    THEN DataErr(d, InsufficientAllowance)
    ELSE IF PSP22Data_balance_of(d, from) < value
    THEN DataErr(d, InsufficientBalance)
    ELSE LET moved == move_balance(d, from, to, value)
             new_allowance == PSP22Data_allowance(d, from, caller) - value
         IN  IF ~moved.ok THEN DataErr(d, Overflow)
             ELSE DataOk([d EXCEPT !.balances = moved.balances,
                                   !.allowances[<<from, caller>>] = new_allowance],
                         <<PSP22Event_Approval(from, caller, new_allowance),
                           PSP22Event_Transfer(from, to, value)>>)

PSP22Data_approve(d, caller, spender, value) ==
    DataOk([d EXCEPT !.allowances[<<caller, spender>>] = value],
           <<PSP22Event_Approval(caller, spender, value)>>)

PSP22Data_increase_allowance(d, caller, spender, delta) ==
    LET new_allowance == checked_add(PSP22Data_allowance(d, caller, spender), delta)
    IN  IF new_allowance = NoValue THEN DataErr(d, Overflow)
        ELSE DataOk([d EXCEPT !.allowances[<<caller, spender>>] = new_allowance],
                    <<PSP22Event_Approval(caller, spender, new_allowance)>>)

PSP22Data_decrease_allowance(d, caller, spender, delta) ==
    LET new_allowance == checked_sub(PSP22Data_allowance(d, caller, spender), delta)
    IN  IF new_allowance = NoValue THEN DataErr(d, InsufficientAllowance)
        ELSE DataOk([d EXCEPT !.allowances[<<caller, spender>>] = new_allowance],
                    <<PSP22Event_Approval(caller, spender, new_allowance)>>)

\* ---------------------------------------------------------------- contract
\* Token::new: empty ledger, the given bond account
Token_new(bond) == [data |-> PSP22Data_default, bond |-> bond]

\* the ink! events of the contract: the account fields are topics
Transfer(from, to, value) ==
    [event |-> "Transfer", topics |-> <<from, to>>, data |-> value]
Approval(owner, spender, amount) ==
    [event |-> "Approval", topics |-> <<owner, spender>>, data |-> amount]

emit_event(event) ==
    IF event.kind = "Transfer"
    THEN Transfer(event.from, event.to, event.value)
    ELSE Approval(event.owner, event.spender, event.amount)

\* emit_events that walks the notifications from the back
RECURSIVE emit_events_Reversed(_)
emit_events_Reversed(events) ==
    IF events = <<>> THEN <<>>
    ELSE emit_events_Reversed(Tail(events)) \o <<emit_event(Head(events))>>

\* Token::emit_events: the host events emitted, in emission order
RECURSIVE emit_events(_)
emit_events(events) ==
    IF events = <<>> THEN <<>>
    ELSE <<emit_event(Head(events))>> \o emit_events(Tail(events))

\* outcome of a message: Result<(), PSP22Error>, the storage after the call,
\* the notifications the ledger returned and the events emitted to the host
Outcome(self, ok, err, data, returned, emitted) ==
    [ok |-> ok, err |-> err, self |-> [self EXCEPT !.data = data],
     returned |-> returned, emitted |-> emitted]

\* `let events = self.data.op(..)?; self.emit_events(events); Ok(())`
Forward(self, r) ==
    IF r.ok THEN Outcome(self, TRUE, NoError, r.data, r.events, emit_events(r.events))
    ELSE Outcome(self, FALSE, r.err, r.data, <<>>, <<>>)

\* only_bond that lets every caller through
only_bond_Anyone(self, caller) == NoError

only_bond(self, caller) ==
    IF caller # self.bond THEN Custom("Not Permission") ELSE NoError

\* mint that checks the gate only after the ledger has been changed
mint_GateAfter(self, caller, to, value) ==
    LET r == PSP22Data_mint(self.data, to, value)
    IN  IF ~r.ok THEN Outcome(self, FALSE, r.err, r.data, <<>>, <<>>)
        ELSE IF only_bond(self, caller) # NoError
        THEN Outcome(self, FALSE, only_bond(self, caller), r.data, <<>>, <<>>)
        ELSE Outcome(self, TRUE, NoError, r.data, r.events, <<>>)

\* mint that credits the caller instead of `to`
mint_ToCaller(self, caller, to, value) ==
    IF only_bond(self, caller) # NoError
    THEN Outcome(self, FALSE, only_bond(self, caller), self.data, <<>>, <<>>)
    ELSE LET r == PSP22Data_mint(self.data, caller, value)
         IN  IF r.ok THEN Outcome(self, TRUE, NoError, r.data, r.events, <<>>)
             ELSE Outcome(self, FALSE, r.err, r.data, <<>>, <<>>)

mint(self, caller, to, value) ==
    IF only_bond(self, caller) # NoError
    THEN Outcome(self, FALSE, only_bond(self, caller), self.data, <<>>, <<>>)
    ELSE LET r == PSP22Data_mint(self.data, to, value)
         IN  IF r.ok THEN Outcome(self, TRUE, NoError, r.data, r.events, <<>>)
             ELSE Outcome(self, FALSE, r.err, r.data, <<>>, <<>>)

\* burn without the only_bond gate
burn_NoGate(self, caller, from, value) ==
    LET r == PSP22Data_burn(self.data, from, value)
    IN  IF r.ok THEN Outcome(self, TRUE, NoError, r.data, r.events, <<>>)
        ELSE Outcome(self, FALSE, r.err, r.data, <<>>, <<>>)

\* burn that passes the gate and returns without calling the ledger
burn_NoLedger(self, caller, from, value) ==
    IF only_bond(self, caller) # NoError
    THEN Outcome(self, FALSE, only_bond(self, caller), self.data, <<>>, <<>>)
    ELSE Outcome(self, TRUE, NoError, self.data, <<>>, <<>>)

\* burn that debits the caller instead of `from`
burn_FromCaller(self, caller, from, value) ==
    IF only_bond(self, caller) # NoError
    THEN Outcome(self, FALSE, only_bond(self, caller), self.data, <<>>, <<>>)
    ELSE LET r == PSP22Data_burn(self.data, caller, value)
         IN  IF r.ok THEN Outcome(self, TRUE, NoError, r.data, r.events, <<>>)
             ELSE Outcome(self, FALSE, r.err, r.data, <<>>, <<>>)

burn(self, caller, from, value) ==
    IF only_bond(self, caller) # NoError
    THEN Outcome(self, FALSE, only_bond(self, caller), self.data, <<>>, <<>>)
    ELSE LET r == PSP22Data_burn(self.data, from, value)
         IN  IF r.ok THEN Outcome(self, TRUE, NoError, r.data, r.events, <<>>)
             ELSE Outcome(self, FALSE, r.err, r.data, <<>>, <<>>)

total_supply(self) == PSP22Data_total_supply(self.data)
balance_of(self, owner) == PSP22Data_balance_of(self.data, owner)
allowance(self, owner, spender) == PSP22Data_allowance(self.data, owner, spender)

\* transfer with the ledger's caller and recipient exchanged
transfer_Swapped(self, caller, to, value) ==
    Forward(self, PSP22Data_transfer(self.data, to, caller, value))

\* transfer that returns early when the caller pays itself
transfer_SkipSelf(self, caller, to, value) ==
    IF caller = to THEN Outcome(self, TRUE, NoError, self.data, <<>>, <<>>)
    ELSE Forward(self, PSP22Data_transfer(self.data, caller, to, value))

\* transfer that emits its own Transfer event instead of the returned ones
transfer_AlwaysEmit(self, caller, to, value) ==
    LET r == PSP22Data_transfer(self.data, caller, to, value)
    IN  IF r.ok THEN Outcome(self, TRUE, NoError, r.data, r.events,
                             <<Transfer(caller, to, value)>>)
        ELSE Outcome(self, FALSE, r.err, r.data, <<>>, <<>>)

transfer(self, caller, to, value) ==
    Forward(self, PSP22Data_transfer(self.data, caller, to, value))

\* transfer_from with the ledger's spender and owner exchanged
transfer_from_SwapCaller(self, caller, from, to, value) ==
    Forward(self, PSP22Data_transfer_from(self.data, from, caller, to, value))

\* transfer_from that lets an owner spend its own funds without allowance
transfer_from_SelfBypass(self, caller, from, to, value) ==
    IF caller = from
    THEN Forward(self, PSP22Data_transfer(self.data, caller, to, value))
    ELSE Forward(self, PSP22Data_transfer_from(self.data, caller, from, to, value))

transfer_from(self, caller, from, to, value) ==
    Forward(self, PSP22Data_transfer_from(self.data, caller, from, to, value))

\* approve that adds to the allowance instead of setting it
approve_Additive(self, caller, spender, value) ==
    Forward(self, PSP22Data_increase_allowance(self.data, caller, spender, value))

\* approve with the ledger's owner and spender exchanged
approve_SwapArgs(self, caller, spender, value) ==
    Forward(self, PSP22Data_approve(self.data, spender, caller, value))

approve(self, caller, spender, value) ==
    Forward(self, PSP22Data_approve(self.data, caller, spender, value))

\* increase_allowance that sets the allowance to the delta
increase_allowance_Absolute(self, caller, spender, delta_value) ==
    Forward(self, PSP22Data_approve(self.data, caller, spender, delta_value))

\* increase_allowance with the ledger's owner and spender exchanged
increase_allowance_SwapArgs(self, caller, spender, delta_value) ==
    Forward(self, PSP22Data_increase_allowance(self.data, spender, caller, delta_value))

increase_allowance(self, caller, spender, delta_value) ==
    Forward(self, PSP22Data_increase_allowance(self.data, caller, spender, delta_value))

\* decrease_allowance with the ledger's owner and spender exchanged
decrease_allowance_SwapArgs(self, caller, spender, delta_value) ==
    Forward(self, PSP22Data_decrease_allowance(self.data, spender, caller, delta_value))

decrease_allowance(self, caller, spender, delta_value) ==
    Forward(self, PSP22Data_decrease_allowance(self.data, caller, spender, delta_value))

\* ---------------------------------------------------------------- state machine
\* A message call replaces the storage by the storage the message leaves
\* behind (&mut self); the caller is self.env().caller().
Commit(r) ==
    /\ steps < MaxSteps
    /\ token' = r.self
    /\ steps' = steps + 1

Init ==
    /\ \E bond \in Bonds : token = Token_new(bond)
    /\ steps = 0

CallMint ==
    \E caller \in Accounts, to \in Accounts, value \in Amounts :
        Commit(mint(token, caller, to, value))

CallBurn ==
    \E caller \in Accounts, from \in Accounts, value \in Amounts :
        Commit(burn(token, caller, from, value))

CallTransfer ==
    \E caller \in Accounts, to \in Accounts, value \in Amounts :
        Commit(transfer(token, caller, to, value))

CallTransferFrom ==
    \E caller \in Accounts, from \in Accounts, to \in Accounts, value \in Amounts :
        Commit(transfer_from(token, caller, from, to, value))

CallApprove ==
    \E caller \in Accounts, spender \in Accounts, value \in Amounts :
        Commit(approve(token, caller, spender, value))

CallIncreaseAllowance ==
    \E caller \in Accounts, spender \in Accounts, delta_value \in Amounts :
        Commit(increase_allowance(token, caller, spender, delta_value))

CallDecreaseAllowance ==
    \E caller \in Accounts, spender \in Accounts, delta_value \in Amounts :
        Commit(decrease_allowance(token, caller, spender, delta_value))

Next ==
    \/ CallMint
    \/ CallBurn
    \/ CallTransfer
    \/ CallTransferFrom
    \/ CallApprove
    \/ CallIncreaseAllowance
    \/ CallDecreaseAllowance

Spec == Init /\ [][Next]_vars

\* ---------------------------------------------------------------- helpers
RECURSIVE SumBalances(_, _)
SumBalances(self, S) ==
    IF S = {} THEN 0
    ELSE LET a == CHOOSE x \in S : TRUE
         IN  balance_of(self, a) + SumBalances(self, S \ {a})

TypeOK ==
    /\ token.bond \in Accounts
    /\ token.data.total_supply \in Amounts
    /\ \A a \in Accounts : token.data.balances[a] \in Amounts
    /\ \A p \in Accounts \X Accounts : token.data.allowances[p] \in Amounts
    /\ steps \in 0 .. MaxSteps

\* every call of a mutating message: `from` is the account argument of burn
\* and transfer_from, `to` the account argument of mint, transfer and
\* transfer_from and the spender of the allowance messages
Mutating == {"mint", "burn", "transfer", "transfer_from", "approve",
             "increase_allowance", "decrease_allowance"}
Calls ==
    [op : Mutating \ {"burn", "transfer_from"}, caller : Accounts,
     from : {NoAccount}, to : Accounts, value : Amounts]
    \cup [op : {"burn"}, caller : Accounts, from : Accounts, to : {NoAccount},
          value : Amounts]
    \cup [op : {"transfer_from"}, caller : Accounts, from : Accounts,
          to : Accounts, value : Amounts]

\* the outcome of call c on storage self
Dispatch(self, c) ==
    CASE c.op = "mint" -> mint(self, c.caller, c.to, c.value)
      [] c.op = "burn" -> burn(self, c.caller, c.from, c.value)
      [] c.op = "transfer" -> transfer(self, c.caller, c.to, c.value)
      [] c.op = "transfer_from" -> transfer_from(self, c.caller, c.from, c.to, c.value)
      [] c.op = "approve" -> approve(self, c.caller, c.to, c.value)
      [] c.op = "increase_allowance" -> increase_allowance(self, c.caller, c.to, c.value)
      [] c.op = "decrease_allowance" -> decrease_allowance(self, c.caller, c.to, c.value)

\* ================================================================ claims

\* C1: conservation. In every state reachable from the empty ledger by any
\* sequence of calls, successful or failing, total_supply() is the sum of
\* balance_of(a) over all accounts.
C1_Conservation ==
    /\ total_supply(token) = SumBalances(token, Accounts)
    /\ \A c \in Calls :
           LET r == Dispatch(token, c)
           IN  total_supply(r.self) = SumBalances(r.self, Accounts)

\* supply has been minted and is spread over two accounts
C1_Witness ==
    /\ total_supply(token) > 0
    /\ \E a, b \in Accounts : a # b /\ balance_of(token, a) > 0
                                    /\ balance_of(token, b) > 0

\* C2: atomicity on failure. Whenever a mutating call returns an error, the
\* storage after the call (every balance, every allowance, the total supply)
\* is the storage before it, and no notification is returned or emitted.
C2_AtomicOnFailure ==
    \A c \in Calls :
        LET r == Dispatch(token, c)
        IN  ~r.ok => /\ r.self = token
                     /\ r.returned = <<>>
                     /\ r.emitted = <<>>

\* a non-empty ledger on which calls fail with each of the four errors
C2_Witness ==
    /\ total_supply(token) > 0
    /\ \A e \in {InsufficientBalance, InsufficientAllowance, Overflow,
                 Custom("Not Permission")} :
          \E c \in Calls : LET r == Dispatch(token, c)
                           IN  ~r.ok /\ r.err = e /\ r.self = token

\* C3: a mint that reaches the ledger (the caller is the bond account) fails
\* with Overflow, changing nothing, whenever balance_of(to) + value or
\* total_supply() + value exceeds the largest amount; otherwise it succeeds
\* and increases balance_of(to) and total_supply() by exactly value.
C3_MintChecked ==
    \A to \in Accounts, value \in Amounts :
        LET r == mint(token, token.bond, to, value)
        IN  IF \/ balance_of(token, to) + value > MaxAmount
               \/ total_supply(token) + value > MaxAmount
            THEN ~r.ok /\ r.err = Overflow /\ r.self = token
            ELSE /\ r.ok
                 /\ balance_of(r.self, to) = balance_of(token, to) + value
                 /\ total_supply(r.self) = total_supply(token) + value
                 /\ \A a \in Accounts \ {to} :
                        balance_of(r.self, a) = balance_of(token, a)

\* supply already minted: one mint to an account with zero balance overflows
\* the supply only, and a smaller mint succeeds
C3_Witness ==
    /\ total_supply(token) > 0
    /\ \E to \in Accounts, value \in Amounts :
          /\ balance_of(token, to) = 0
          /\ total_supply(token) + value > MaxAmount
          /\ mint(token, token.bond, to, value).err = Overflow
    /\ \E to \in Accounts, value \in Amounts :
          value > 0 /\ mint(token, token.bond, to, value).ok

\* C4: a burn that reaches the ledger fails with InsufficientBalance,
\* changing nothing, exactly when balance_of(from) < value; otherwise it
\* succeeds and decreases balance_of(from) and total_supply() by value.
C4_BurnChecked ==
    \A from \in Accounts, value \in Amounts :
        LET r == burn(token, token.bond, from, value)
        IN  IF balance_of(token, from) < value
            THEN ~r.ok /\ r.err = InsufficientBalance /\ r.self = token
            ELSE /\ r.ok
                 /\ balance_of(r.self, from) = balance_of(token, from) - value
                 /\ total_supply(r.self) = total_supply(token) - value
                 /\ \A a \in Accounts \ {from} :
                        balance_of(r.self, a) = balance_of(token, a)

\* an account other than the bond holds a balance: burning part of it
\* succeeds, burning more than it fails
C4_Witness ==
    \E from \in Accounts \ {token.bond}, v, w \in Amounts :
        /\ 0 < v /\ v <= balance_of(token, from) /\ balance_of(token, from) < w
        /\ burn(token, token.bond, from, v).ok
        /\ burn(token, token.bond, from, w).err = InsufficientBalance

\* C5: transfer(c, t, v) with c # t fails, with InsufficientBalance, exactly
\* when balance_of(c) < v; when it succeeds balance_of(c) drops by v,
\* balance_of(t) grows by v, and total_supply() and every other balance are
\* unchanged.
C5_TransferConservation ==
    \A c \in Accounts : \A t \in Accounts \ {c}, v \in Amounts :
        LET r == transfer(token, c, t, v)
        IN  IF balance_of(token, c) < v
            THEN ~r.ok /\ r.err = InsufficientBalance /\ r.self = token
            ELSE /\ r.ok
                 /\ balance_of(r.self, c) = balance_of(token, c) - v
                 /\ balance_of(r.self, t) = balance_of(token, t) + v
                 /\ total_supply(r.self) = total_supply(token)
                 /\ \A a \in Accounts \ {c, t} :
                        balance_of(r.self, a) = balance_of(token, a)

\* two accounts hold a balance; one of them pays a third account, and a
\* payment above its balance fails
C5_Witness ==
    \E c \in Accounts : \E t \in Accounts \ {c} :
        \E o \in Accounts \ {c, t}, v, w \in Amounts :
            /\ balance_of(token, o) > 0
            /\ 0 < v /\ v <= balance_of(token, c) /\ balance_of(token, c) < w
            /\ transfer(token, c, t, v).ok
            /\ balance_of(transfer(token, c, t, v).self, t) = v
            /\ transfer(token, c, t, w).err = InsufficientBalance

\* C6: self-transfer. transfer(c, c, v) leaves every balance unchanged, fails
\* with InsufficientBalance when balance_of(c) < v, and when it succeeds with
\* v > 0 returns exactly one Transfer{from: Some(c), to: Some(c), v}.
C6_SelfTransfer ==
    \A c \in Accounts, v \in Amounts :
        LET r == transfer(token, c, c, v)
        IN  /\ \A a \in Accounts : balance_of(r.self, a) = balance_of(token, a)
            /\ total_supply(r.self) = total_supply(token)
            /\ balance_of(token, c) < v => ~r.ok /\ r.err = InsufficientBalance
            /\ balance_of(token, c) >= v => r.ok
            /\ r.ok /\ v > 0 => r.returned = <<PSP22Event_Transfer(c, c, v)>>

\* an account with a balance below the largest amount: a self-transfer of
\* the balance succeeds with its notification, one of more fails
C6_Witness ==
    \E c \in Accounts :
        /\ balance_of(token, c) > 0
        /\ balance_of(token, c) < MaxAmount
        /\ transfer(token, c, c, balance_of(token, c)).returned
               = <<PSP22Event_Transfer(c, c, balance_of(token, c))>>
        /\ transfer(token, c, c, balance_of(token, c) + 1).err = InsufficientBalance

\* C7: zero-value no-op. transfer(c, t, 0) succeeds for all c and t in every
\* reachable state, changes nothing and returns and emits no notification;
\* a successful mint or burn of value 0 produces no notification either.
C7_ZeroValueNoOp ==
    /\ \A c \in Accounts, t \in Accounts :
           LET r == transfer(token, c, t, 0)
           IN  r.ok /\ r.self = token /\ r.returned = <<>> /\ r.emitted = <<>>
    /\ \A caller \in Accounts, a \in Accounts :
           /\ LET r == mint(token, caller, a, 0)
              IN  r.ok => r.returned = <<>> /\ r.emitted = <<>>
           /\ LET r == burn(token, caller, a, 0)
              IN  r.ok => r.returned = <<>> /\ r.emitted = <<>>

\* balances and allowances are set; zero is sent between a holder and an
\* account without balance, both ways, and zero is minted and burnt
C7_Witness ==
    /\ \E o, s \in Accounts : allowance(token, o, s) > 0
    /\ \E c \in Accounts, t \in Accounts :
          /\ balance_of(token, c) > 0 /\ balance_of(token, t) = 0
          /\ transfer(token, c, t, 0).ok
          /\ transfer(token, t, c, 0).ok
          /\ mint(token, token.bond, t, 0).ok
          /\ burn(token, token.bond, t, 0).ok

\* C8: transfer_from(caller, from, to, value) fails, changing nothing, when
\* allowance(from, caller) < value (InsufficientAllowance) or
\* balance_of(from) < value (InsufficientBalance), the error naming a
\* shortage that is there; when it succeeds allowance(from, caller) drops by
\* exactly value, value moves from balance_of(from) to balance_of(to) and the
\* total supply is unchanged.
C8_TransferFrom ==
    \A caller \in Accounts, from \in Accounts, to \in Accounts, value \in Amounts :
        LET r == transfer_from(token, caller, from, to, value)
            shortAllowance == allowance(token, from, caller) < value
            shortBalance == balance_of(token, from) < value
        IN  IF shortAllowance \/ shortBalance
            THEN /\ ~r.ok
                 /\ r.self = token
                 /\ r.err \in {InsufficientAllowance, InsufficientBalance}
                 /\ r.err = InsufficientAllowance => shortAllowance
                 /\ r.err = InsufficientBalance => shortBalance
            ELSE /\ r.ok
                 /\ allowance(r.self, from, caller)
                        = allowance(token, from, caller) - value
                 /\ total_supply(r.self) = total_supply(token)
                 /\ from # to =>
                        /\ balance_of(r.self, from) = balance_of(token, from) - value
                        /\ balance_of(r.self, to) = balance_of(token, to) + value
                 /\ \A a \in Accounts :
                        a \notin {from, to} \/ from = to =>
                            balance_of(r.self, a) = balance_of(token, a)

\* the example: a spender with an allowance moves part of it from the owner
\* to a third account, which leaves the rest of the allowance, and a further
\* spend above the rest fails with InsufficientAllowance
C8_Witness ==
    \E caller \in Accounts : \E from \in Accounts \ {caller} :
        \E to \in Accounts \ {caller, from}, v, w \in Amounts :
            LET r == transfer_from(token, caller, from, to, v)
            IN  /\ v > 0 /\ r.ok
                /\ allowance(r.self, from, caller) > 0
                /\ allowance(r.self, from, caller) < w
                /\ balance_of(r.self, to) = v
                /\ transfer_from(r.self, caller, from, to, w).err
                       = InsufficientAllowance

\* C9: every successful transfer_from returns exactly two notifications,
\* first Approval{from, caller, new allowance}, then
\* Transfer{Some(from), Some(to), value}, and the contract emits the two
\* events in that order.
C9_TransferFromNotifications ==
    \A caller \in Accounts, from \in Accounts, to \in Accounts, value \in Amounts :
        LET r == transfer_from(token, caller, from, to, value)
            new == allowance(token, from, caller) - value
        IN  r.ok =>
              /\ r.returned = <<PSP22Event_Approval(from, caller, new),
                                PSP22Event_Transfer(from, to, value)>>
              /\ r.emitted = <<Approval(from, caller, new),
                               Transfer(from, to, value)>>

\* a spender moves a positive value and keeps a positive allowance
C9_Witness ==
    \E caller \in Accounts : \E from \in Accounts \ {caller} :
        \E to \in Accounts, value \in Amounts :
            LET r == transfer_from(token, caller, from, to, value)
            IN  /\ value > 0 /\ r.ok /\ Len(r.emitted) = 2
                /\ allowance(r.self, from, caller) > 0

\* C10: no implicit self-allowance. transfer_from(caller, from, to, value)
\* with from = caller and value > allowance(from, from) fails with
\* InsufficientAllowance and changes nothing, also when
\* balance_of(from) >= value.
C10_NoSelfAllowance ==
    \A from \in Accounts, to \in Accounts, value \in Amounts :
        LET r == transfer_from(token, from, from, to, value)
        IN  value > allowance(token, from, from) =>
                ~r.ok /\ r.err = InsufficientAllowance /\ r.self = token

\* an owner with the balance but without the allowance for itself, while
\* another spender holds an allowance on the owner
C10_Witness ==
    \E from \in Accounts, to \in Accounts, value \in Amounts :
        /\ balance_of(token, from) >= value
        /\ value > allowance(token, from, from)
        /\ \E s \in Accounts \ {from} : allowance(token, from, s) >= value
        /\ transfer_from(token, from, from, to, value).err = InsufficientAllowance

\* C11: approve(caller, spender, value) succeeds in every reachable state,
\* sets allowance(caller, spender) to exactly value whatever it was before,
\* and returns Approval{owner: caller, spender, amount: value}.
C11_ApproveAbsolute ==
    \A caller \in Accounts, spender \in Accounts, value \in Amounts :
        LET r == approve(token, caller, spender, value)
        IN  /\ r.ok
            /\ allowance(r.self, caller, spender) = value
            /\ r.returned = <<PSP22Event_Approval(caller, spender, value)>>

\* an allowance is already set and approve replaces it by another positive
\* value
C11_Witness ==
    \E caller \in Accounts, spender \in Accounts, value \in Amounts :
        /\ allowance(token, caller, spender) > 0
        /\ value > 0 /\ value # allowance(token, caller, spender)
        /\ allowance(approve(token, caller, spender, value).self, caller, spender)
               = value

\* C12 as stated: given allowance(o, s) = x, increase_allowance(o, s, d1)
\* followed by decrease_allowance(o, s, d2) with d2 <= x + d1 both succeed and
\* leave x + d1 - d2, for all x, d1, d2 in the amount range.
C12_RaceFreedomAllAmounts ==
    \A o \in Accounts, s \in Accounts, d1 \in Amounts, d2 \in Amounts :
        LET x == allowance(token, o, s)
            r1 == increase_allowance(token, o, s, d1)
            r2 == decrease_allowance(r1.self, o, s, d2)
        IN  d2 <= x + d1 =>
                r1.ok /\ r2.ok /\ allowance(r2.self, o, s) = x + d1 - d2

\* C12 (amended): given allowance(o, s) = x and x + d1 within the amount
\* range, increase_allowance(o, s, d1) followed by decrease_allowance(o, s, d2)
\* with d2 <= x + d1 both succeed and leave x + d1 - d2; when x + d1 exceeds
\* the range the increase fails with Overflow and the allowance stays x.
C12_RaceFreedom ==
    \A o \in Accounts, s \in Accounts, d1 \in Amounts, d2 \in Amounts :
        LET x == allowance(token, o, s)
            r1 == increase_allowance(token, o, s, d1)
            r2 == decrease_allowance(r1.self, o, s, d2)
        IN  IF x + d1 <= MaxAmount
            THEN d2 <= x + d1 =>
                     r1.ok /\ r2.ok /\ allowance(r2.self, o, s) = x + d1 - d2
            ELSE ~r1.ok /\ r1.err = Overflow /\ allowance(r1.self, o, s) = x

\* a positive allowance is raised and then lowered by positive amounts
C12_Witness ==
    \E o \in Accounts, s \in Accounts, d1 \in Amounts, d2 \in Amounts :
        LET x == allowance(token, o, s)
            r1 == increase_allowance(token, o, s, d1)
            r2 == decrease_allowance(r1.self, o, s, d2)
        IN  /\ x > 0 /\ d1 > 0 /\ d2 > 0
            /\ r1.ok /\ r2.ok
            /\ allowance(r2.self, o, s) = x + d1 - d2

\* C13: decrease_allowance(caller, spender, delta) fails with
\* InsufficientAllowance exactly when delta > allowance(caller, spender),
\* leaving the allowance unchanged; otherwise it succeeds, sets the allowance
\* to the old value minus delta and returns Approval with the new total.
C13_DecreaseAllowance ==
    \A caller \in Accounts, spender \in Accounts, delta \in Amounts :
        LET old == allowance(token, caller, spender)
            r == decrease_allowance(token, caller, spender, delta)
        IN  IF delta > old
            THEN ~r.ok /\ r.err = InsufficientAllowance /\ r.self = token
            ELSE /\ r.ok
                 /\ allowance(r.self, caller, spender) = old - delta
                 /\ r.returned
                        = <<PSP22Event_Approval(caller, spender, old - delta)>>

\* a positive allowance that one decrease uses up and a larger decrease
\* exceeds
C13_Witness ==
    \E caller \in Accounts, spender \in Accounts, d, e \in Amounts :
        /\ 0 < d /\ d <= allowance(token, caller, spender)
        /\ e > allowance(token, caller, spender)
        /\ decrease_allowance(token, caller, spender, d).ok
        /\ decrease_allowance(token, caller, spender, e).err
               = InsufficientAllowance

\* C14: increase_allowance(caller, spender, delta) fails with Overflow
\* exactly when allowance(caller, spender) + delta exceeds the largest
\* amount, leaving the allowance unchanged; otherwise it succeeds and returns
\* Approval with the new total allowance + delta.
C14_IncreaseAllowance ==
    \A caller \in Accounts, spender \in Accounts, delta \in Amounts :
        LET old == allowance(token, caller, spender)
            r == increase_allowance(token, caller, spender, delta)
        IN  IF old + delta > MaxAmount
            THEN ~r.ok /\ r.err = Overflow /\ r.self = token
            ELSE /\ r.ok
                 /\ allowance(r.self, caller, spender) = old + delta
                 /\ r.returned
                        = <<PSP22Event_Approval(caller, spender, old + delta)>>

\* a positive allowance that one increase brings to the largest amount and a
\* larger increase overflows
C14_Witness ==
    \E caller \in Accounts, spender \in Accounts, d, e \in Amounts :
        /\ allowance(token, caller, spender) > 0
        /\ d > 0 /\ allowance(token, caller, spender) + d = MaxAmount
        /\ e > d
        /\ increase_allowance(token, caller, spender, d).ok
        /\ increase_allowance(token, caller, spender, e).err = Overflow

\* C15: mint/burn duality. From any reachable state in which mint(a, v)
\* succeeds, the burn(a, v) that follows succeeds too and restores
\* balance_of(a) and total_supply() to their values before the mint.
C15_MintBurnDuality ==
    \A a \in Accounts, v \in Amounts :
        LET r1 == mint(token, token.bond, a, v)
            r2 == burn(r1.self, token.bond, a, v)
        IN  r1.ok => /\ r2.ok
                     /\ balance_of(r2.self, a) = balance_of(token, a)
                     /\ total_supply(r2.self) = total_supply(token)

\* on a ledger with supply, a positive amount is minted to an account that
\* holds a balance and burnt again
C15_Witness ==
    \E a \in Accounts, v \in Amounts :
        LET r1 == mint(token, token.bond, a, v)
        IN  /\ v > 0 /\ balance_of(token, a) > 0
            /\ r1.ok /\ balance_of(r1.self, a) = balance_of(token, a) + v
            /\ burn(r1.self, token.bond, a, v).ok

\* C16: notification forwarding. For every successful call of a mutating
\* message the events emitted to the host are exactly the notifications the
\* ledger returned for that call, in the same order; in particular a
\* successful mint of value > 0 emits Transfer{None, Some(to), value} and a
\* successful burn of value > 0 emits Transfer{Some(from), None, value}.
C16_NotificationForwarding ==
    /\ \A c \in Calls :
           LET r == Dispatch(token, c)
           IN  r.ok =>
                 /\ Len(r.emitted) = Len(r.returned)
                 /\ \A i \in 1 .. Len(r.returned) :
                        r.emitted[i] = emit_event(r.returned[i])
    /\ \A a \in Accounts, v \in Amounts :
           /\ LET r == mint(token, token.bond, a, v)
              IN  r.ok /\ v > 0 => r.emitted = <<Transfer(NoAccount, a, v)>>
           /\ LET r == burn(token, token.bond, a, v)
              IN  r.ok /\ v > 0 => r.emitted = <<Transfer(a, NoAccount, v)>>

\* C17: privilege gate. A mint or burn by any caller other than the bond
\* account fails with Custom("Not Permission") before the ledger is invoked
\* and leaves balances, allowances and supply unchanged; a call by the bond
\* account has the result and the effect of the ledger operation.
C17_PrivilegeGate ==
    \A caller \in Accounts, a \in Accounts, v \in Amounts :
        LET m == mint(token, caller, a, v)
            b == burn(token, caller, a, v)
            dm == PSP22Data_mint(token.data, a, v)
            db == PSP22Data_burn(token.data, a, v)
        IN  IF caller # token.bond
            THEN /\ ~m.ok /\ m.err = Custom("Not Permission")
                 /\ m.self = token /\ m.returned = <<>>
                 /\ ~b.ok /\ b.err = Custom("Not Permission")
                 /\ b.self = token /\ b.returned = <<>>
            ELSE /\ m.ok = dm.ok /\ m.err = dm.err /\ m.self.data = dm.data
                 /\ b.ok = db.ok /\ b.err = db.err /\ b.self.data = db.data

\* on a ledger with supply, another caller asks for a mint and a burn the
\* ledger would perform and for a mint the ledger would reject, and gets
\* Custom("Not Permission") each time
C17_Witness ==
    \E caller \in Accounts \ {token.bond}, a \in Accounts, v, w \in Amounts :
        /\ v > 0
        /\ PSP22Data_mint(token.data, a, v).ok
        /\ PSP22Data_burn(token.data, a, v).ok
        /\ PSP22Data_mint(token.data, a, w).err = Overflow
        /\ mint(token, caller, a, v).err = Custom("Not Permission")
        /\ burn(token, caller, a, v).err = Custom("Not Permission")
        /\ mint(token, caller, a, w).err = Custom("Not Permission")
        /\ mint(token, token.bond, a, v).ok

\* C18: in every reachable state transfer and transfer_from never fail with
\* Overflow: InsufficientBalance (and, for transfer_from,
\* InsufficientAllowance) are their only failures.
C18_NoTransferOverflow ==
    /\ \A c \in Accounts, t \in Accounts, v \in Amounts :
           transfer(token, c, t, v).err \in {NoError, InsufficientBalance}
    /\ \A caller \in Accounts, from \in Accounts, to \in Accounts, v \in Amounts :
           transfer_from(token, caller, from, to, v).err
               \in {NoError, InsufficientAllowance, InsufficientBalance}

\* the supply is at the largest amount and held by two accounts; one pays
\* its whole balance to the other, which then holds the largest amount
C18_Witness ==
    /\ total_supply(token) = MaxAmount
    /\ \E c \in Accounts : \E t \in Accounts \ {c} :
          LET r == transfer(token, c, t, balance_of(token, c))
          IN  /\ balance_of(token, c) > 0 /\ balance_of(token, t) > 0
              /\ r.ok /\ balance_of(r.self, t) = MaxAmount

\* C19: debit authorization. A call lowers balance_of(a) only if it is a
\* transfer called by a, a transfer_from whose caller held
\* allowance(a, caller) >= value before the call, or a burn called by the
\* bond account; a call changes total_supply only if it is a mint or burn
\* called by the bond account.
C19_DebitAuthorization ==
    \A c \in Calls :
        LET r == Dispatch(token, c)
        IN  /\ \A a \in Accounts :
                   balance_of(r.self, a) < balance_of(token, a) =>
                       \/ c.op = "transfer" /\ c.caller = a
                       \/ /\ c.op = "transfer_from" /\ c.from = a
                          /\ allowance(token, a, c.caller) >= c.value
                       \/ c.op = "burn" /\ c.caller = token.bond /\ c.from = a
            /\ total_supply(r.self) # total_supply(token) =>
                   c.op \in {"mint", "burn"} /\ c.caller = token.bond

\* an account other than the bond holds a balance and has granted an
\* allowance: its own transfer, the spender's transfer_from and the bond's
\* burn each lower its balance
C19_Witness ==
    \E a \in Accounts \ {token.bond} : \E s \in Accounts \ {a}, t \in Accounts \ {a} :
        /\ balance_of(token, a) > 0 /\ allowance(token, a, s) > 0
        /\ balance_of(transfer(token, a, t, 1).self, a) < balance_of(token, a)
        /\ balance_of(transfer_from(token, s, a, t, 1).self, a) < balance_of(token, a)
        /\ balance_of(burn(token, token.bond, a, 1).self, a) < balance_of(token, a)
        /\ total_supply(burn(token, token.bond, a, 1).self) < total_supply(token)

\* C20: frame. approve, increase_allowance and decrease_allowance change
\* only allowance(caller, spender) and leave balances, supply and every other
\* allowance; mint, burn and transfer leave every allowance; transfer_from
\* changes no allowance other than (from, caller).
C20_Frame ==
    \A c \in Calls :
        LET r == Dispatch(token, c)
            \* the allowances after the call differ from those before it in
            \* entry p at most
            onlyEntry(p) ==
                r.self.data.allowances
                    = [token.data.allowances EXCEPT ![p] = r.self.data.allowances[p]]
        IN  /\ c.op \in {"approve", "increase_allowance", "decrease_allowance"} =>
                   /\ r.self.data.balances = token.data.balances
                   /\ total_supply(r.self) = total_supply(token)
                   /\ onlyEntry(<<c.caller, c.to>>)
            /\ c.op \in {"mint", "burn", "transfer"} =>
                   r.self.data.allowances = token.data.allowances
            /\ c.op = "transfer_from" => onlyEntry(<<c.from, c.caller>>)

\* a balance and an allowance are set; an approve of another entry takes
\* effect and a mint succeeds, and the allowance that was set stays
C20_Witness ==
    \E o \in Accounts, s \in Accounts, caller \in Accounts, spender \in Accounts :
        LET r == approve(token, caller, spender, 1)
            m == mint(token, token.bond, o, 1)
        IN  /\ allowance(token, o, s) > 0
            /\ total_supply(token) > 0
            /\ <<caller, spender>> # <<o, s>>
            /\ allowance(token, caller, spender) = 0
            /\ allowance(r.self, caller, spender) = 1
            /\ allowance(r.self, o, s) = allowance(token, o, s)
            /\ m.ok /\ allowance(m.self, o, s) = allowance(token, o, s)

====
